---- MODULE Spec2Model ----
(***************************************************************************)
(* MyCurrency: exchange-rate resolution with a provider fallback chain,    *)
(* the rate store, the provider configuration and the batch tasks.         *)
(*                                                                         *)
(* Decimal values are integers in units of 0.000001 (six fractional        *)
(* digits, the scale of CurrencyExchangeRate.rate_value).  A date is the   *)
(* number of days after 2024-05-20 (1 is 2024-05-21).  Python's None is    *)
(* the empty sequence and a value v is <<v>>.                              *)
(***************************************************************************)
EXTENDS Integers, Sequences, FiniteSets, Bags, TLC

VARIABLES
    currencies,   \* Currency table: the set of registered codes
    rates,        \* CurrencyExchangeRate table: a bag of rows
    providers,    \* Provider table: a set of records
    resolver,     \* per caller: the get_exchange_rate call in flight
    worker,       \* the batch task in flight
    last,         \* what the latest step returned to its caller
    logged,       \* the operations whose responses last records
    settings,     \* core.settings: which adapters have their URL and API key
    rng           \* the generator of module random: its seed, the draws since

vars == <<currencies, rates, providers, resolver, worker, last, logged, settings, rng>>

----------------------------------------------------------------------------
\* Bounds of the model.

MaxDate == 2
MaxPriority == 2
MaxRows == 2

Codes == {"USD", "EUR"}
ArgCodes == Codes \cup {"XXX"}
Dates == 1 .. MaxDate
Today == MaxDate
Priorities == 1 .. MaxPriority
Callers == {"web1"}

None == <<>>
Some(v) == <<v>>

----------------------------------------------------------------------------
\* Persistence models.

ProviderName == {"currency_beacon", "mock", "exchange_rate"}

get_name_display(name) ==
    CASE name = "currency_beacon" -> "CurrencyBeacon"
      [] name = "mock" -> "Mock"
      [] name = "exchange_rate" -> "ExchangeRate"

Row(s, t, d, v) == [source |-> s, target |-> t, date |-> d, value |-> v]

RowsFor(rs, s, t, d) ==
    {r \in BagToSet(rs) : r.source = s /\ r.target = t /\ r.date = d}

\* CurrencyExchangeRate.objects.filter(source, exchanged, date).first():
\* the stored value, or None.
get_rate(rs, s, t, d) ==
    IF RowsFor(rs, s, t, d) = {} THEN None
    ELSE Some((CHOOSE r \in RowsFor(rs, s, t, d) : TRUE).value)

\* UniqueConstraint unique_rate_per_day: an INSERT of a key that has a row fails.
unique_rate_per_day(rs, row) ==
    RowsFor(rs, row.source, row.target, row.date) = {}

\* The foreign keys of a row refer to rows of the Currency table.
ForeignKeysHold(cs, row) == row.source \in cs /\ row.target \in cs

\* A create on a table without the unique constraint.
create_unconstrained(cs, rs, row) ==
    IF ForeignKeysHold(cs, row)
    THEN [ok |-> TRUE, rates |-> rs (+) SetToBag({row})]
    ELSE [ok |-> FALSE, rates |-> rs]

\* A create that replaces the row of its key (update_or_create).
create_upsert(cs, rs, row) ==
    IF ForeignKeysHold(cs, row)
    THEN [ok |-> TRUE,
          rates |-> [r \in DOMAIN rs \ RowsFor(rs, row.source, row.target, row.date)
                        |-> rs[r]] (+) SetToBag({row})]
    ELSE [ok |-> FALSE, rates |-> rs]

\* A create that reports success and stores nothing.
create_lost(cs, rs, row) == [ok |-> TRUE, rates |-> rs]

\* CurrencyExchangeRate.objects.create: [ok, rates].  ok = FALSE is the
\* IntegrityError the INSERT raises; the table is then unchanged.
create(cs, rs, row) ==
    IF unique_rate_per_day(rs, row) /\ ForeignKeysHold(cs, row)
    THEN [ok |-> TRUE, rates |-> rs (+) SetToBag({row})]
    ELSE [ok |-> FALSE, rates |-> rs]

\* Provider.objects.filter(is_active=True).order_by('priority'), as a sequence
\* of records.
RECURSIVE order_by_priority(_)
order_by_priority(ps) ==
    IF ps = {} THEN <<>>
    ELSE LET p == CHOOSE x \in ps : \A y \in ps : x.priority <= y.priority
         IN <<p>> \o order_by_priority(ps \ {p})

\* The query without its is_active filter.
get_all_ordered(ps) == order_by_priority(ps)

get_active_ordered(ps) == order_by_priority({p \in ps : p.is_active})

----------------------------------------------------------------------------
\* Provider adapters.  An adapter is named by the ProviderName it is built for.

\* core.settings with the URL and the API key of both remote adapters set.
Configured == [CURRENCY_BEACON |-> TRUE, EXCHANGERATE |-> TRUE]

PROVIDER_REGISTRY == {"currency_beacon", "mock"}

get_provider_instance(name) ==
    IF name \in PROVIDER_REGISTRY THEN Some(name) ELSE None

RECURSIVE instances_of(_)
instances_of(models) ==
    IF models = <<>> THEN <<>>
    ELSE get_provider_instance(Head(models).name) \o instances_of(Tail(models))

\* The list as the first call read it, kept for every later call.
get_active_providers_first_read(ps) == <<"mock", "currency_beacon">>

get_active_providers_ordered(ps) == instances_of(get_active_ordered(ps))

\* MockProvider.BASE_RATES
BASE_RATES == {"USD", "EUR", "GBP", "CHF"}

\* base_rate * variation, quantized, for the dates 2024-05-21 .. 2024-05-25:
\* what random.seed(f"{source}{target}{date}") and uniform(0.98, 1.02) give.
MockTable(s, t) ==
    CASE s = "USD" /\ t = "USD" -> <<1001287, 993489, 1013367, 988678, 1000424>>
      [] s = "USD" /\ t = "EUR" -> <<838642, 862229, 853323, 842363, 839412>>
      [] s = "EUR" /\ t = "USD" -> <<1195451, 1165587, 1196358, 1179039, 1162316>>
      [] s = "EUR" /\ t = "EUR" -> <<1010457, 1011180, 980410, 1011081, 1003153>>
      [] OTHER -> <<1000000, 1000000, 1000000, 1000000, 1000000>>

MockProvider(s, t, d) ==
    IF s \notin BASE_RATES \/ t \notin BASE_RATES THEN None
    ELSE Some(MockTable(s, t)[((d - 1) % 5) + 1])

\* The rate values the CurrencyBeacon API may answer with: Decimal(str(rate))
\* of whatever number the payload holds.
BeaconRates == {0, 850000}

\* What a call that raised an exception gave: neither None nor a rate.  The
\* adapter named "raising" is the Mock of the tests whose
\* get_exchange_rate_data has side_effect = Exception("API Error").
Raised == <<0, 0>>

\* What the request of one call meets: an exception of requests.get, of
\* raise_for_status or of response.json(), or a payload, which has no entry
\* for the rate or holds "invalid", 0 or 0.85 there.
Responses ==
    {"Timeout", "ConnectionError", "HTTPError", "JSONDecodeError",
     "no_rate_key", "invalid", "0", "0.85"}

\* The try block of a remote adapter: the exception it raises ("none": it
\* returns).  The subscript of a payload without the entry raises KeyError,
\* Decimal(str(rate)) of a text that is no number raises InvalidOperation.
try_request(response) ==
    CASE response \in {"Timeout", "ConnectionError", "HTTPError", "JSONDecodeError"}
           -> [raises |-> response, returns |-> 0]
      [] response = "no_rate_key" -> [raises |-> "KeyError", returns |-> 0]
      [] response = "invalid" -> [raises |-> "InvalidOperation", returns |-> 0]
      [] response = "0" -> [raises |-> "none", returns |-> 0]
      [] OTHER -> [raises |-> "none", returns |-> 850000]

\* The except clauses without the last one.
except_clauses_named == <<"Timeout", "HTTPError", "KeyError", "ValueError">>

\* The except clauses of a remote adapter, in their order.
except_clauses == <<"Timeout", "HTTPError", "KeyError", "ValueError", "Exception">>

\* try / except of a remote adapter: the Decimal of the payload, None when a
\* clause catches the exception (JSONDecodeError is a ValueError, everything
\* is an Exception), Raised when none does.
request_outcome(response) ==
    LET r == try_request(response)
        isinstance(exc, cls) ==
            \/ cls = "Exception"
            \/ cls = exc
            \/ cls = "ValueError" /\ exc = "JSONDecodeError"
    IN IF r.raises = "none" THEN Some(r.returns)
       ELSE IF \E i \in 1 .. Len(except_clauses) : isinstance(r.raises, except_clauses[i])
       THEN None
       ELSE Raised

\* One call of get_exchange_rate_data of the adapter built for name, its
\* request meeting response.  A remote adapter whose URL or key is not set
\* gives None: ExchangeRateProvider returns at once, CurrencyBeaconProvider's
\* request fails on the URL.
adapter_call(name, s, t, d, response) ==
    IF name = "mock" THEN MockProvider(s, t, d)
    ELSE IF name = "exchange_rate"
    THEN (IF ~settings.EXCHANGERATE THEN None ELSE request_outcome(response))
    ELSE IF ~settings.CURRENCY_BEACON THEN None
    ELSE request_outcome(response)

\* The values one call of an adapter's get_exchange_rate_data may return.
get_exchange_rate_data(name, s, t, d) ==
    IF name = "raising" THEN {Raised}
    ELSE {adapter_call(name, s, t, d, response) : response \in Responses}

\* One answer for each adapter of the list, should it be called.
RECURSIVE AnswersFor(_, _, _, _)
AnswersFor(provs, s, t, d) ==
    IF provs = <<>> THEN {<<>>}
    ELSE {<<x>> \o rest : x \in get_exchange_rate_data(Head(provs), s, t, d),
                          rest \in AnswersFor(Tail(provs), s, t, d)}

----------------------------------------------------------------------------
\* ExchangeRateService.get_exchange_rate.

\* A loop without the break: every adapter is called.
RECURSIVE fallback_loop_no_break(_, _, _, _)
fallback_loop_no_break(provs, ans, i, calls) ==
    IF i > Len(provs)
    THEN [rate_value |-> IF calls = <<>> THEN None ELSE calls[Len(calls)].returned,
          calls |-> calls]
    ELSE fallback_loop_no_break(provs, ans, i + 1,
            Append(calls, [position |-> i, adapter |-> provs[i], returned |-> ans[i]]))

\* The fallback loop: adapter i is called and answers ans[i]; the loop breaks
\* at the first answer that is not None.  calls logs each call made.
RECURSIVE fallback_loop(_, _, _, _)
fallback_loop(provs, ans, i, calls) ==
    IF i > Len(provs) THEN [rate_value |-> None, calls |-> calls]
    ELSE LET call == [position |-> i, adapter |-> provs[i], returned |-> ans[i]]
         IN IF ans[i] = Raised
            THEN [rate_value |-> Raised, calls |-> Append(calls, call)]
            ELSE IF ans[i] # None
            THEN [rate_value |-> ans[i], calls |-> Append(calls, call)]
            ELSE fallback_loop(provs, ans, i + 1, Append(calls, call))

\* Steps 1 to 3 without the database check.
fetch_exchange_rate_no_cache(cs, rs, provs, s, t, d, ans) ==
    IF s \notin cs \/ t \notin cs
    THEN [save |-> FALSE, rate_value |-> None, listed |-> <<>>, calls |-> <<>>]
    ELSE IF provs = <<>>
    THEN [save |-> FALSE, rate_value |-> None, listed |-> provs, calls |-> <<>>]
    ELSE LET out == fallback_loop(provs, ans, 1, <<>>)
         IN [save |-> out.rate_value # None, rate_value |-> out.rate_value,
             listed |-> provs, calls |-> out.calls]

\* Steps 1 to 3 without the currency lookup.
fetch_exchange_rate_no_lookup(cs, rs, provs, s, t, d, ans) ==
    IF get_rate(rs, s, t, d) # None
    THEN [save |-> FALSE, rate_value |-> get_rate(rs, s, t, d), listed |-> <<>>,
          calls |-> <<>>]
    ELSE IF provs = <<>>
    THEN [save |-> FALSE, rate_value |-> None, listed |-> provs, calls |-> <<>>]
    ELSE LET out == fallback_loop(provs, ans, 1, <<>>)
         IN [save |-> out.rate_value # None, rate_value |-> out.rate_value,
             listed |-> provs, calls |-> out.calls]

\* A lookup that answers a rate of one when no provider gave any.
fetch_exchange_rate_par(cs, rs, provs, s, t, d, ans) ==
    IF s \notin cs \/ t \notin cs
    THEN [save |-> FALSE, rate_value |-> None, listed |-> <<>>, calls |-> <<>>]
    ELSE IF get_rate(rs, s, t, d) # None
    THEN [save |-> FALSE, rate_value |-> get_rate(rs, s, t, d), listed |-> <<>>,
          calls |-> <<>>]
    ELSE LET out == fallback_loop(provs, ans, 1, <<>>)
         IN [save |-> TRUE,
             rate_value |-> IF out.rate_value = None THEN Some(1000000)
                            ELSE out.rate_value,
             listed |-> provs, calls |-> out.calls]

\* Steps 1 to 3: the currency lookup, the database check, the provider list
\* and the fallback loop.  save tells whether step 4 is still to run, listed
\* is the provider list when the call came to fetch it.
fetch_exchange_rate(cs, rs, provs, s, t, d, ans) ==
    IF s \notin cs \/ t \notin cs
    THEN [save |-> FALSE, rate_value |-> None, listed |-> <<>>, calls |-> <<>>]
    ELSE IF get_rate(rs, s, t, d) # None
    THEN [save |-> FALSE, rate_value |-> get_rate(rs, s, t, d), listed |-> <<>>,
          calls |-> <<>>]
    ELSE IF provs = <<>>
    THEN [save |-> FALSE, rate_value |-> None, listed |-> provs, calls |-> <<>>]
    ELSE LET out == fallback_loop(provs, ans, 1, <<>>)
         IN [save |-> out.rate_value # None /\ out.rate_value # Raised,
             rate_value |-> out.rate_value,
             listed |-> provs, calls |-> out.calls]

Idle == [pc |-> "idle"]

\* The generator as the interpreter starts it: seeded from the system.
Unseeded == [seed |-> <<"os">>, drawn |-> 0]

\* last after a step of operation op that returns resp.
Log(op, resp) == IF op \in logged THEN resp ELSE [op |-> "unlogged"]

\* A call of get_exchange_rate(s, t, d) by caller c, with provs the list that
\* get_active_providers_ordered returns to it (patched: the list of a test that
\* patches get_active_providers_ordered).  found records the state the call
\* met (both currencies registered, the stored value) and what it did.
ResolveBeginWith(c, s, t, d, provs, patched) ==
    /\ resolver[c].pc = "idle"
    /\ \E ans \in AnswersFor(provs, s, t, d) :
        LET out == fetch_exchange_rate(currencies, rates, provs, s, t, d, ans)
            found == [source |-> s, target |-> t, date |-> d,
                      registered |-> (s \in currencies /\ t \in currencies),
                      cached |-> get_rate(rates, s, t, d),
                      listed |-> out.listed, calls |-> out.calls,
                      patched |-> patched]
        IN /\ resolver' = [resolver EXCEPT ![c] =
                  IF out.save
                  THEN [pc |-> "save", rate_value |-> out.rate_value, found |-> found]
                  ELSE Idle]
           /\ last' = Log("resolve",
                         [op |-> "resolve", step |-> "begin", done |-> ~out.save,
                          result |-> out.rate_value, found |-> found])
    /\ UNCHANGED <<currencies, rates, providers, worker, logged, settings, rng>>

ResolveBegin(c, s, t, d) ==
    ResolveBeginWith(c, s, t, d, get_active_providers_ordered(providers), FALSE)

\* test_get_exchange_rate_fallback_mechanism: the provider list is patched.
PatchedLists ==
    {<<"currency_beacon", "mock", "currency_beacon">>,
     <<"currency_beacon", "currency_beacon", "mock">>}

ResolveBeginPatched(c, s, t, d, provs) == ResolveBeginWith(c, s, t, d, provs, TRUE)

\* Steps 4 and 5: the rate is saved, an exception of the save is swallowed, and
\* the rate is returned.
ResolveSave(c) ==
    /\ resolver[c].pc = "save"
    /\ LET f == resolver[c].found
           saved == create(currencies, rates,
                           Row(f.source, f.target, f.date, resolver[c].rate_value[1]))
       IN /\ saved.ok => BagCardinality(rates) < MaxRows
          /\ rates' = saved.rates
          /\ last' = Log("resolve",
                        [op |-> "resolve", step |-> "save", done |-> TRUE,
                         result |-> resolver[c].rate_value, found |-> f,
                         saved |-> saved.ok])
    /\ resolver' = [resolver EXCEPT ![c] = Idle]
    /\ UNCHANGED <<currencies, providers, worker, logged, settings, rng>>

----------------------------------------------------------------------------
\* Retention cleanup.

\* A delete that takes the rows of the cutoff date too.
delete_older_than_inclusive(rs, days) ==
    LET cutoff_date == Today - days
        old == {r \in DOMAIN rs : r.date <= cutoff_date}
    IN [deleted |-> BagCardinality([r \in old |-> rs[r]]),
        rates |-> [r \in DOMAIN rs \ old |-> rs[r]]]

\* CurrencyExchangeRateRepository.delete_older_than: [deleted, rates].
delete_older_than(rs, days) ==
    LET cutoff_date == Today - days
        old == {r \in DOMAIN rs : r.date < cutoff_date}
    IN [deleted |-> BagCardinality([r \in old |-> rs[r]]),
        rates |-> [r \in DOMAIN rs \ old |-> rs[r]]]

cleanup_old_exchange_rates(days_to_keep) ==
    /\ LET out == delete_older_than(rates, days_to_keep)
       IN /\ rates' = out.rates
          /\ last' = Log("cleanup",
                        [op |-> "cleanup", success |-> TRUE,
                         rates_deleted |-> out.deleted, days_kept |-> days_to_keep])
    /\ UNCHANGED <<currencies, providers, resolver, worker, logged, settings, rng>>

----------------------------------------------------------------------------
\* The batch tasks.  A task takes its snapshot of currencies and providers when
\* it starts, then handles its keys one by one: the existence check and the
\* provider calls are one step, the save another.

CodeOrder == <<"EUR", "USD">>

InSet(cs) == LET Test(c) == c \in cs IN SelectSeq(CodeOrder, Test)

\* CurrencyRepository.get_all_active: Currency.objects.all(), ordered by code.
get_all_active(cs) == InSet(cs)

\* Python truthiness of an adapter's answer: None and Decimal(0) are falsy.
Truthy(x) == x # None /\ x[1] # 0

RECURSIVE pairs_with(_, _, _)
pairs_with(h, rest, d) ==
    IF rest = <<>> THEN <<>>
    ELSE << <<h, Head(rest), d>>, <<Head(rest), h, d>> >> \o pairs_with(h, Tail(rest), d)

\* The keys sync_exchange_rates_for_today visits: each unordered pair of the
\* snapshot, in both directions.
RECURSIVE currency_pairs(_, _)
currency_pairs(cs, d) ==
    IF cs = <<>> THEN <<>>
    ELSE pairs_with(Head(cs), Tail(cs), d) \o currency_pairs(Tail(cs), d)

\* The keys sync_missing_rates_for_currency_pair visits: date_from .. date_to.
RECURSIVE date_range(_, _, _, _)
date_range(s, t, date_from, date_to) ==
    IF date_from > date_to THEN <<>>
    ELSE << <<s, t, date_from>> >> \o date_range(s, t, date_from + 1, date_to)

\* A task's provider loop: rate_value is the latest answer, the loop breaks at
\* the first truthy one.
RECURSIVE sync_loop(_, _, _, _)
sync_loop(provs, ans, i, rate_value) ==
    IF i > Len(provs) THEN rate_value
    ELSE IF Truthy(ans[i]) THEN ans[i]
    ELSE sync_loop(provs, ans, i + 1, ans[i])

\* The calls of get_exchange_rate_data the loop makes from adapter i on: one
\* for each adapter up to the first whose answer is truthy.
RECURSIVE sync_calls(_, _, _)
sync_calls(provs, ans, i) ==
    IF i > Len(provs) THEN 0
    ELSE IF Truthy(ans[i]) THEN 1
    ELSE 1 + sync_calls(provs, ans, i + 1)

\* What an observer of the task runs keeps: the number of runs started so far
\* and the table as the present run met it (kept only when the responses of
\* the tasks are recorded).
PriorRuns == IF "runs" \in DOMAIN last THEN last.runs ELSE 0

Observed(x, otherwise) == IF "runs" \in logged THEN x ELSE otherwise

Task(name, todo, ps, reversed) ==
    [pc |-> "fetch", task |-> name, todo |-> todo, providers |-> ps,
     reversed |-> reversed,
     rate_value |-> None, rates_synced |-> 0, errors |-> 0, calls |-> 0,
     heard |-> <<>>,
     runs |-> Observed(PriorRuns + 1, 0), before |-> Observed(rates, EmptyBag)]

TaskResult(w) ==
    [op |-> w.task, step |-> "return", success |-> TRUE, why |-> "completed",
     rates_synced |-> w.rates_synced, errors |-> w.errors, calls |-> w.calls,
     heard |-> w.heard,
     reversed |-> w.reversed, runs |-> w.runs, before |-> w.before]

\* The result record of a task that stops before its loop.
TaskFailure(name, why) ==
    [op |-> name, step |-> "return", success |-> FALSE, why |-> why,
     rates_synced |-> 0, errors |-> 0, calls |-> 0, heard |-> <<>>,
     reversed |-> FALSE,
     runs |-> Observed(PriorRuns + 1, 0), before |-> Observed(rates, EmptyBag)]

\* The task goes on with its next key, or returns when none is left.
Continue(w) ==
    IF w.todo = <<>>
    THEN /\ worker' = Idle
         /\ last' = Log("sync", TaskResult(w))
    ELSE /\ worker' = w
         /\ last' = Log("sync", [op |-> w.task, step |-> w.pc, runs |-> w.runs])

sync_exchange_rates_for_today ==
    /\ worker.pc = "idle"
    /\ LET cs == get_all_active(currencies)
           ps == get_active_ordered(providers)
       IN IF cs = <<>>
          THEN /\ worker' = Idle
               /\ last' = Log("sync", TaskFailure("syncToday", "no_currencies"))
          ELSE IF ps = <<>>
          THEN /\ worker' = Idle
               /\ last' = Log("sync", TaskFailure("syncToday", "no_providers"))
          ELSE Continue(Task("syncToday", currency_pairs(cs, Today), ps, FALSE))
    /\ UNCHANGED <<currencies, rates, providers, resolver, logged, settings, rng>>

\* The ISO strings of the modelled days, day 1 first.
IsoDays == <<"2024-05-21", "2024-05-22", "2024-05-23", "2024-05-24">>

isoformat(d) == IsoDays[d]

\* date.fromisoformat: the day a string denotes, None for its ValueError.
fromisoformat(str) ==
    IF \E d \in DOMAIN IsoDays : IsoDays[d] = str
    THEN Some(CHOOSE d \in DOMAIN IsoDays : IsoDays[d] = str)
    ELSE None

\* The date strings a task is called with: each day, and one that is no date.
DateStrings == {isoformat(d) : d \in Dates} \cup {"2024-13-45"}

sync_missing_rates_for_currency_pair(s, t, date_from_str, date_to_str) ==
    /\ worker.pc = "idle"
    /\ LET date_from == fromisoformat(date_from_str)
           date_to == fromisoformat(date_to_str)
       IN IF date_from = None \/ date_to = None
          THEN /\ worker' = Idle
               /\ last' = Log("sync", TaskFailure("gapSync", "invalid_date"))
          ELSE IF s \notin currencies \/ t \notin currencies
          THEN /\ worker' = Idle
               /\ last' = Log("sync", TaskFailure("gapSync", "currency_not_found"))
          ELSE Continue(Task("gapSync", date_range(s, t, date_from[1], date_to[1]),
                             get_active_ordered(providers),
                             date_from[1] > date_to[1]))
    /\ UNCHANGED <<currencies, rates, providers, resolver, logged, settings, rng>>

\* sync_exchange_rates_for_date_range: the dates are parsed and compared; the
\* loop over the range advances current_date and does nothing else.
sync_exchange_rates_for_date_range(date_from_str, date_to_str) ==
    /\ worker.pc = "idle"
    /\ LET date_from == fromisoformat(date_from_str)
           date_to == fromisoformat(date_to_str)
           result(success, why) ==
               [op |-> "dateRange", step |-> "return", success |-> success,
                why |-> why, rates_synced |-> 0,
                date_from |-> date_from, date_to |-> date_to,
                listed |-> get_active_ordered(providers), before |-> rates]
       IN last' = Log("sync",
                      IF date_from = None \/ date_to = None
                      THEN result(FALSE, "invalid_date")
                      ELSE IF date_from[1] > date_to[1]
                      THEN result(FALSE, "reversed")
                      ELSE result(TRUE, "completed"))
    /\ UNCHANGED <<currencies, rates, providers, resolver, worker, logged, settings, rng>>

\* The entry of check_providers_health for one provider that answered x.
health_status(name, x) ==
    IF get_provider_instance(name) = None THEN "error"
    ELSE IF Truthy(x) THEN "healthy"
    ELSE "unhealthy"

\* check_providers_health: every provider, active or not, is asked USD/EUR
\* for today.
check_providers_health ==
    /\ LET names == {p.name : p \in providers}
       IN \E answers \in [names -> {None} \cup {Some(v) : v \in BeaconRates}
                                         \cup {MockProvider("USD", "EUR", Today)}] :
            /\ \A n \in names :
                 get_provider_instance(n) # None
                     => answers[n] \in get_exchange_rate_data(n, "USD", "EUR", Today)
            /\ \A n \in names :
                 get_provider_instance(n) = None => answers[n] = None
            /\ last' = Log("health",
                           [op |-> "health", step |-> "return", success |-> TRUE,
                            providers_checked |-> Cardinality(names),
                            results |-> [n \in names |-> health_status(n, answers[n])]])
    /\ UNCHANGED <<currencies, rates, providers, resolver, worker, logged, settings, rng>>

\* One key of a task: the existence check and, on a miss, the provider loop
\* over the snapshot (a provider without a constructor is skipped).  Where an
\* observer of the adapters ("calls") is attached, calls counts the calls made
\* and heard keeps the answers the adapters had for the key.
TaskFetch ==
    /\ worker.pc = "fetch"
    /\ LET key == Head(worker.todo)
           provs == instances_of(worker.providers)
           rest == [worker EXCEPT !.todo = Tail(worker.todo), !.heard = <<>>]
       IN IF get_rate(rates, key[1], key[2], key[3]) # None
          THEN Continue(rest)
          ELSE \E ans \in AnswersFor(provs, key[1], key[2], key[3]) :
                 LET rate_value == sync_loop(provs, ans, 1, None)
                     made == IF "calls" \in logged THEN sync_calls(provs, ans, 1) ELSE 0
                     heard == IF "calls" \in logged THEN ans ELSE <<>>
                 IN IF Truthy(rate_value)
                    THEN Continue([worker EXCEPT !.pc = "save",
                                                 !.rate_value = rate_value,
                                                 !.calls = @ + made,
                                                 !.heard = heard])
                    ELSE Continue([rest EXCEPT !.calls = @ + made,
                                               !.heard = heard,
                                               !.errors =
                            IF worker.task = "syncToday" THEN @ + 1 ELSE @])
    /\ UNCHANGED <<currencies, rates, providers, resolver, logged, settings, rng>>

\* The save of a task's key; an exception of the save becomes an error entry.
TaskSave ==
    /\ worker.pc = "save"
    /\ LET key == Head(worker.todo)
           saved == create(currencies, rates,
                           Row(key[1], key[2], key[3], worker.rate_value[1]))
           rest == [worker EXCEPT !.pc = "fetch", !.todo = Tail(worker.todo),
                                  !.rate_value = None, !.heard = <<>>]
       IN /\ saved.ok => BagCardinality(rates) < MaxRows
          /\ rates' = saved.rates
          /\ IF saved.ok
             THEN Continue([rest EXCEPT !.rates_synced = @ + 1])
             ELSE Continue([rest EXCEPT !.errors = @ + 1])
    /\ UNCHANGED <<currencies, providers, resolver, logged, settings, rng>>

\* INSERT ... ON CONFLICT DO NOTHING of the rows, one after the other.
RECURSIVE insert_ignore_conflicts(_, _)
insert_ignore_conflicts(rs, rows) ==
    IF rows = <<>> THEN rs
    ELSE insert_ignore_conflicts(
            IF unique_rate_per_day(rs, Head(rows))
            THEN rs (+) SetToBag({Head(rows)}) ELSE rs,
            Tail(rows))

\* CurrencyExchangeRateRepository.bulk_create(ignore_conflicts=True): [ok, rates].
\* A row whose currency is gone fails the statement.
bulk_create(cs, rs, rows) ==
    IF \A i \in 1 .. Len(rows) : ForeignKeysHold(cs, rows[i])
    THEN [ok |-> TRUE, rates |-> insert_ignore_conflicts(rs, rows)]
    ELSE [ok |-> FALSE, rates |-> rs]

BulkInsert(rows) ==
    /\ LET out == bulk_create(currencies, rates, rows)
       IN /\ BagCardinality(out.rates) <= MaxRows
          /\ rates' = out.rates
          /\ last' = Log("bulk", [op |-> "bulk_create", ok |-> out.ok])
    /\ UNCHANGED <<currencies, providers, resolver, worker, logged, settings, rng>>

----------------------------------------------------------------------------
\* The REST resources (ModelViewSet) of currencies and providers.

CreateCurrency(code) ==
    /\ IF code \in currencies
       THEN /\ last' = Log("currency", [op |-> "createCurrency", status |-> 400])
            /\ UNCHANGED currencies
       ELSE /\ last' = Log("currency", [op |-> "createCurrency", status |-> 201])
            /\ currencies' = currencies \cup {code}
    /\ UNCHANGED <<rates, providers, resolver, worker, logged, settings, rng>>

\* PUT or PATCH /currencies/{id}/ of name or symbol.
UpdateCurrency(code) ==
    /\ code \in currencies
    /\ last' = Log("currency", [op |-> "updateCurrency", status |-> 200])
    /\ UNCHANGED <<currencies, rates, providers, resolver, worker, logged, settings, rng>>

\* on_delete=CASCADE: the rates that refer to the currency go with it.
DeleteCurrency(code) ==
    /\ code \in currencies
    /\ currencies' = currencies \ {code}
    /\ rates' = [r \in {x \in DOMAIN rates : x.source # code /\ x.target # code}
                   |-> rates[r]]
    /\ last' = Log("currency",
                   [op |-> "deleteCurrency", status |-> 204,
                    cascaded |-> Cardinality({x \in DOMAIN rates :
                                     x.source = code \/ x.target = code})])
    /\ UNCHANGED <<providers, resolver, worker, logged, settings, rng>>

\* The validator a ModelSerializer derives from unique=True on a model field:
\* another provider (not the instance being updated) holds the value.
UniqueValidator(ps, field, value, instance) ==
    IF \E p \in ps : p[field] = value /\ Some(p.name) # instance
    THEN {[field |-> field, code |-> "unique", named |-> {}]}
    ELSE {}

\* ProviderSerializer.validate_priority: the error names the provider that
\* holds the priority.
validate_priority(ps, value, instance) ==
    LET existing == {p \in ps : p.priority = value /\ Some(p.name) # instance}
    IN IF existing # {}
       THEN {[field |-> "priority", code |-> "already_assigned",
              named |-> {get_name_display((CHOOSE p \in existing : TRUE).name)}]}
       ELSE {}

\* Validation of the priority field: the field's own validators run first and
\* validate_priority runs on a value they accepted.
run_validation_priority(ps, value, instance) ==
    IF UniqueValidator(ps, "priority", value, instance) # {}
    THEN UniqueValidator(ps, "priority", value, instance)
    ELSE validate_priority(ps, value, instance)

\* A table without the unique index on priority.
ProviderConstraintsHold_no_index(ps, rec) == TRUE

\* Provider.save: unique=True on priority, in the database.
ProviderConstraintsHold(ps, rec) ==
    \A p \in ps : p.name # rec.name => p.priority # rec.priority

ProviderRec(name, priority, is_active) ==
    [name |-> name, priority |-> priority, is_active |-> is_active]

\* The other providers that hold the priority when the request arrives.
Holders(ps, value, instance) ==
    {p.name : p \in {q \in ps : q.priority = value /\ Some(q.name) # instance}}

ProviderResponse(op, status, priority, errors, instance) ==
    [op |-> op, status |-> status, priority |-> priority, errors |-> errors,
     holders |-> Holders(providers, priority, instance),
     kept |-> \E p \in providers : Some(p.name) = instance /\ p.priority = priority]

\* POST /providers/
CreateProvider(name, priority, is_active) ==
    LET errors == UniqueValidator(providers, "name", name, None)
                    \cup run_validation_priority(providers, priority, None)
        rec == ProviderRec(name, priority, is_active)
    IN /\ IF errors = {} /\ ProviderConstraintsHold(providers, rec)
          THEN /\ providers' = providers \cup {rec}
               /\ last' = Log("provider", ProviderResponse("createProvider", 201,
                                                            priority, {}, None))
          ELSE /\ UNCHANGED providers
               /\ last' = Log("provider", ProviderResponse("createProvider", 400,
                                                            priority, errors, None))
       /\ UNCHANGED <<currencies, rates, resolver, worker, logged, settings, rng>>

\* PUT or PATCH /providers/{id}/ of the provider named name (its name kept).
UpdateProvider(name, priority, is_active) ==
    /\ \E old \in providers :
        /\ old.name = name
        /\ LET errors == run_validation_priority(providers, priority, Some(name))
               rec == ProviderRec(name, priority, is_active)
           IN IF errors = {} /\ ProviderConstraintsHold(providers, rec)
              THEN /\ providers' = (providers \ {old}) \cup {rec}
                   /\ last' = Log("provider",
                                  ProviderResponse("updateProvider", 200, priority,
                                                   {}, Some(name)))
              ELSE /\ UNCHANGED providers
                   /\ last' = Log("provider",
                                  ProviderResponse("updateProvider", 400, priority,
                                                   errors, Some(name)))
    /\ UNCHANGED <<currencies, rates, resolver, worker, logged, settings, rng>>

\* DELETE /providers/{id}/
DeleteProvider(name) ==
    /\ \E old \in providers :
        /\ old.name = name
        /\ providers' = providers \ {old}
    /\ last' = Log("provider", [op |-> "deleteProvider", status |-> 204])
    /\ UNCHANGED <<currencies, rates, resolver, worker, logged, settings, rng>>

\* ProviderRepository.update_priority: the new priority is saved with no
\* serializer in front; the unique index answers with IntegrityError.
update_priority(name, new_priority) ==
    /\ \E old \in providers :
        /\ old.name = name
        /\ LET rec == ProviderRec(name, new_priority, old.is_active)
           IN IF ProviderConstraintsHold(providers, rec)
              THEN /\ providers' = (providers \ {old}) \cup {rec}
                   /\ last' = Log("provider", [op |-> "update_priority", ok |-> TRUE])
              ELSE /\ UNCHANGED providers
                   /\ last' = Log("provider", [op |-> "update_priority", ok |-> FALSE])
    /\ UNCHANGED <<currencies, rates, resolver, worker, logged, settings, rng>>

\* ProviderRepository.toggle_active
toggle_active(name) ==
    /\ \E old \in providers :
        /\ old.name = name
        /\ providers' = (providers \ {old})
              \cup {ProviderRec(name, old.priority, ~old.is_active)}
    /\ last' = Log("provider", [op |-> "toggle_active"])
    /\ UNCHANGED <<currencies, rates, resolver, worker, logged, settings, rng>>

----------------------------------------------------------------------------
\* The whole system, from an empty database.

Init ==
    /\ currencies = {}
    /\ rates = EmptyBag
    /\ providers = {}
    /\ resolver = [c \in Callers |-> Idle]
    /\ worker = Idle
    /\ last = [op |-> "none"]
    /\ logged = {}
    /\ settings = Configured
    /\ rng = Unseeded

Resolve ==
    \/ \E c \in Callers, s \in ArgCodes, t \in ArgCodes, d \in Dates :
         ResolveBegin(c, s, t, d)
    \/ \E c \in Callers : ResolveSave(c)

Cleanup == \E days \in 0 .. MaxDate : cleanup_old_exchange_rates(days)

CurrencyAdmin ==
    \/ \E code \in Codes : CreateCurrency(code)
    \/ \E code \in Codes : UpdateCurrency(code)
    \/ \E code \in Codes : DeleteCurrency(code)

ProviderAdmin ==
    \/ \E n \in ProviderName, p \in Priorities, a \in BOOLEAN : CreateProvider(n, p, a)
    \/ \E n \in ProviderName, p \in Priorities, a \in BOOLEAN : UpdateProvider(n, p, a)
    \/ \E n \in ProviderName : DeleteProvider(n)
    \/ \E n \in ProviderName : toggle_active(n)

Tasks ==
    \/ sync_exchange_rates_for_today
    \/ \E s \in ArgCodes, t \in ArgCodes, date_from \in Dates, date_to \in Dates :
         sync_missing_rates_for_currency_pair(s, t, isoformat(date_from), isoformat(date_to))
    \/ \E date_from_str \in DateStrings, date_to_str \in DateStrings :
         sync_exchange_rates_for_date_range(date_from_str, date_to_str)
    \/ check_providers_health
    \/ TaskFetch
    \/ TaskSave

BulkBatches ==
    {<<Row("USD", "EUR", 1, 900000), Row("USD", "EUR", 1, 850000)>>,
     <<Row("EUR", "USD", Today, 1100000)>>}

Bulk == \E rows \in BulkBatches : BulkInsert(rows)

Next == Resolve \/ Tasks \/ Bulk \/ Cleanup \/ CurrencyAdmin \/ ProviderAdmin

Spec == Init /\ [][Next]_vars

----------------------------------------------------------------------------
\* Single lookups, one at a time, against each provider configuration of two
\* providers: the currencies are registered, an administrator toggles
\* providers, the cleanup runs.

ProviderSeeds ==
    {{ProviderRec("currency_beacon", 1, TRUE), ProviderRec("mock", 2, TRUE)},
     {ProviderRec("mock", 1, TRUE), ProviderRec("currency_beacon", 2, TRUE)},
     {ProviderRec("exchange_rate", 1, TRUE), ProviderRec("mock", 2, TRUE)}}

ResolvePairs == {<<"USD", "EUR">>, <<"USD", "USD">>, <<"XXX", "EUR">>, <<"USD", "XXX">>}

InitResolve ==
    /\ currencies = Codes
    /\ rates = EmptyBag
    /\ providers \in ProviderSeeds
    /\ resolver = [c \in Callers |-> Idle]
    /\ worker = Idle
    /\ last = [op |-> "none"]
    /\ logged = {"resolve"}
    /\ settings = Configured
    /\ rng = Unseeded

NextResolve ==
    \/ \E c \in Callers, st \in ResolvePairs, d \in Dates :
         ResolveBegin(c, st[1], st[2], d)
    \/ \E c \in Callers, st \in ResolvePairs, d \in Dates, provs \in PatchedLists :
         ResolveBeginPatched(c, st[1], st[2], d, provs)
    \/ \E c \in Callers : ResolveSave(c)
    \/ \E n \in ProviderName : toggle_active(n)
    \/ Cleanup

SpecResolve == InitResolve /\ [][NextResolve]_vars

----------------------------------------------------------------------------
\* The writers of the rate table, interleaved: a lookup, the two sync tasks
\* and a bulk insert, their steps in any order.

WriterSeeds ==
    {{ProviderRec("currency_beacon", 1, TRUE), ProviderRec("mock", 2, TRUE)},
     {ProviderRec("mock", 1, TRUE), ProviderRec("currency_beacon", 2, FALSE)}}

WriterPairs == {<<"USD", "EUR">>, <<"USD", "USD">>}

InitWriters ==
    /\ currencies = Codes
    /\ rates = EmptyBag
    /\ providers \in WriterSeeds
    /\ resolver = [c \in Callers |-> Idle]
    /\ worker = Idle
    /\ last = [op |-> "none"]
    /\ logged = {"resolve"}
    /\ settings = Configured
    /\ rng = Unseeded

NextWriters ==
    \/ \E c \in Callers, st \in WriterPairs, d \in Dates :
         ResolveBegin(c, st[1], st[2], d)
    \/ \E c \in Callers : ResolveSave(c)
    \/ sync_exchange_rates_for_today
    \/ \E st \in WriterPairs, date_from \in Dates, date_to \in Dates :
         sync_missing_rates_for_currency_pair(st[1], st[2], isoformat(date_from), isoformat(date_to))
    \/ TaskFetch
    \/ TaskSave
    \/ Bulk

SpecWriters == InitWriters /\ [][NextWriters]_vars

\* The value the store holds for a key, read off the table itself.
Stored(s, t, d) ==
    {r.value : r \in {x \in DOMAIN rates :
                         x.source = s /\ x.target = t /\ x.date = d}}

ResolveReturned == last.op = "resolve" /\ last.done

\* C1: a resolve of a registered pair that has a persisted rate for the date
\* returns exactly the persisted value, at once, and calls no provider adapter.
C1_CacheHitNoProvider ==
    (last.op = "resolve" /\ last.found.registered /\ last.found.cached # None)
        => /\ last.step = "begin" /\ last.done
           /\ last.result = last.found.cached
           /\ Stored(last.found.source, last.found.target, last.found.date)
                 = {last.result[1]}
           /\ last.found.calls = <<>>

C1_Witness ==
    /\ ResolveReturned /\ last.found.registered /\ last.found.cached # None
    /\ \E p \in providers : p.is_active /\ p.name \in PROVIDER_REGISTRY

\* C2: on a cache miss the adapters are called in ascending priority order
\* (the list is the active providers that have a constructor, lowest priority
\* number first), each at most once, every call before the last returned no
\* rate, and the calls stop at the first rate: a resolve that returns no rate
\* has called every adapter of the list.
LoopDiscipline(f, result) ==
    /\ Len(f.calls) <= Len(f.listed)
    /\ \A j \in 1 .. Len(f.calls) :
        /\ f.calls[j].position = j
        /\ f.calls[j].adapter = f.listed[j]
        /\ j < Len(f.calls) => f.calls[j].returned = None
    /\ f.calls # <<>> => result = f.calls[Len(f.calls)].returned
    /\ result = None => Len(f.calls) = Len(f.listed)

PriorityOf(name) == (CHOOSE p \in providers : p.name = name).priority

AscendingPriority(listed) ==
    /\ \A j \in 1 .. Len(listed) :
         \E p \in providers : p.name = listed[j] /\ p.is_active
    /\ \A i, j \in 1 .. Len(listed) :
         i < j => PriorityOf(listed[i]) < PriorityOf(listed[j])
    /\ \A p \in providers :
         (p.is_active /\ p.name \in PROVIDER_REGISTRY)
            => \E j \in 1 .. Len(listed) : listed[j] = p.name

C2_FallbackOrder ==
    (last.op = "resolve" /\ last.step = "begin"
       /\ last.found.registered /\ last.found.cached = None)
        => /\ LoopDiscipline(last.found, last.result)
           /\ ~last.found.patched => AscendingPriority(last.found.listed)

C2_Witness ==
    /\ last.op = "resolve" /\ last.step = "begin" /\ Len(last.found.listed) = 3
    /\ Len(last.found.calls) = 2
    /\ last.found.calls[1].returned = None
    /\ last.found.calls[2].returned # None

\* C3: a resolve with an unregistered source or target returns no rate at
\* once, calls no provider adapter and leaves the rate table as it was.
C3_UnknownCurrency ==
    [][(last'.op = "resolve" /\ ~last'.found.registered)
          => /\ last'.step = "begin" /\ last'.done
             /\ last'.result = None
             /\ last'.found.calls = <<>>
             /\ rates' = rates]_vars

C3_Witness ==
    /\ ResolveReturned /\ ~last.found.registered
    /\ \E p \in providers : p.is_active /\ p.name \in PROVIDER_REGISTRY

\* C4: when a resolve that missed the cache and got the rate r from a provider
\* returns, the table holds one row of its key, with the value r; and an
\* identical resolve that comes next returns r and calls no provider.
SameKey(f, g) == f.source = g.source /\ f.target = g.target /\ f.date = g.date

C5_OneRowPerKey ==
    \A r \in DOMAIN rates :
        /\ rates[r] = 1
        /\ \A q \in DOMAIN rates :
             (q.source = r.source /\ q.target = r.target /\ q.date = r.date) => q = r

C5_Witness ==
    /\ last.op = "resolve" /\ last.step = "save" /\ ~last.saved
    /\ BagCardinality(rates) = MaxRows
    /\ worker.pc # "idle"

\* C6: a step of resolve, syncToday, the gap sync or bulk insert leaves the
\* value of every key that has a row as it was, whatever a provider answers
\* later, and a cache hit returns the value the table held.
C6_ValueNeverChanges ==
    [][/\ \A s \in Codes, t \in Codes, d \in Dates :
            Stored(s, t, d) # {} => Stored(s, t, d)' = Stored(s, t, d)
       /\ (last'.op = "resolve" /\ last'.found.cached # None)
            => Stored(last'.found.source, last'.found.target, last'.found.date)
                  = {last'.result[1]}]_vars

C6_Witness ==
    /\ last.op = "resolve" /\ last.step = "save" /\ ~last.saved
    /\ Stored(last.found.source, last.found.target, last.found.date) # {}
    /\ last.result[1] \notin Stored(last.found.source, last.found.target, last.found.date)

\* C7: no state holds a persisted rate whose source currency is its target
\* currency, after any resolve and sync calls with registered codes.
C7_NoSelfPair == \A r \in DOMAIN rates : r.source # r.target

\* C8: every persisted rate has a value above zero, whatever an adapter
\* returns to resolve or to a sync task.
C8_PositiveRate == \A r \in DOMAIN rates : r.value > 0

----------------------------------------------------------------------------
\* The rate table under every operation of the system: lookups, the tasks,
\* the cleanup, and the administration of currencies and providers.

StoreProviders == {"mock", "exchange_rate"}

InitStore ==
    /\ currencies = Codes
    /\ rates = EmptyBag
    /\ providers = {ProviderRec("mock", 1, TRUE)}
    /\ resolver = [c \in Callers |-> Idle]
    /\ worker = Idle
    /\ last = [op |-> "none"]
    /\ logged = {"cleanup", "currency"}
    /\ settings = Configured
    /\ rng = Unseeded

NextStore ==
    \/ \E c \in Callers, d \in Dates : ResolveBegin(c, "USD", "EUR", d)
    \/ \E c \in Callers : ResolveSave(c)
    \/ sync_exchange_rates_for_today
    \/ \E date_from \in Dates, date_to \in Dates :
         sync_missing_rates_for_currency_pair("EUR", "USD", isoformat(date_from), isoformat(date_to))
    \/ TaskFetch
    \/ TaskSave
    \/ Cleanup
    \/ CurrencyAdmin
    \/ \E n \in StoreProviders, p \in Priorities, a \in BOOLEAN : CreateProvider(n, p, a)
    \/ \E n \in StoreProviders, p \in Priorities, a \in BOOLEAN : UpdateProvider(n, p, a)
    \/ \E n \in StoreProviders : DeleteProvider(n)

SpecStore == InitStore /\ [][NextStore]_vars

\* The rows a step takes out of the table.
Removed == {r \in DOMAIN rates : CopiesIn(r, rates') < CopiesIn(r, rates)}

\* C9: a persisted rate row is removed only by the retention cleanup; resolve,
\* the sync tasks, provider create/update/delete and currency
\* create/update/delete remove none.
C9_RemovedOnlyByCleanup ==
    [][Removed # {} => last'.op = "cleanup"]_vars

\* C9, amended: a persisted rate row is removed only by the retention cleanup,
\* which removes rows dated before its cutoff, or by the deletion of the
\* currency that is the row's source or target; resolve, the sync tasks,
\* provider create/update/delete and currency create/update remove none.
C9_RemovedByCleanupOrCascade ==
    [][Removed # {} =>
         \/ /\ last'.op = "cleanup"
            /\ \A r \in Removed : r.date < Today - last'.days_kept
         \/ /\ last'.op = "deleteCurrency"
            /\ \A r \in Removed : r.source \notin currencies' \/ r.target \notin currencies'
            /\ \A r \in DOMAIN rates' : r.source \in currencies' /\ r.target \in currencies']_vars

C9_Witness == last.op = "deleteCurrency" /\ last.cascaded > 0

----------------------------------------------------------------------------
\* The provider resource: create, update, delete and toggle, from an empty
\* provider table.

InitProviders ==
    /\ currencies = Codes
    /\ rates = EmptyBag
    /\ providers = {}
    /\ resolver = [c \in Callers |-> Idle]
    /\ worker = Idle
    /\ last = [op |-> "none"]
    /\ logged = {"provider"}
    /\ settings = Configured
    /\ rng = Unseeded

SpecProviders == InitProviders /\ [][ProviderAdmin]_vars

\* C10: a create or an update of a provider with a priority that another
\* provider holds is rejected, the error names the provider that holds the
\* priority, and the provider records stay as they were; an update that keeps
\* the provider's own priority succeeds.
C10_ConflictNamesHolder ==
    [][/\ (last'.op \in {"createProvider", "updateProvider"} /\ last'.holders # {})
            => /\ last'.status = 400
               /\ providers' = providers
               /\ \E e \in last'.errors :
                    /\ e.field = "priority"
                    /\ e.named = {get_name_display(h) : h \in last'.holders}
       /\ (last'.op = "updateProvider" /\ last'.kept) => last'.status = 200]_vars

----------------------------------------------------------------------------
\* Conversion.  An amount is an integer in units of 0.1, a rate in units of
\* 0.000001, so amount * rate is in units of 0.0000001 and the quantize to
\* Decimal("0.000001") drops one digit.

MaxAmount == 300

Abs(n) == IF n < 0 THEN -n ELSE n

\* Rounding to the nearest multiple of m, a tie going away from zero.
ROUND_HALF_UP(n, m) ==
    LET q == Abs(n) \div m
        r == Abs(n) % m
        mag == IF 2 * r >= m THEN q + 1 ELSE q
    IN IF n < 0 THEN -mag ELSE mag

\* decimal's default context rounding: to the nearest multiple of m, a tie
\* going to the even neighbour.
ROUND_HALF_EVEN(n, m) ==
    LET q == Abs(n) \div m
        r == Abs(n) % m
        mag == IF 2 * r > m \/ (2 * r = m /\ q % 2 = 1) THEN q + 1 ELSE q
    IN IF n < 0 THEN -mag ELSE mag

\* x.quantize(Decimal("0.000001")) of a product: the result in units of 0.000001.
quantize(n) == ROUND_HALF_EVEN(n, 10)

\* A conversion that rounds ties up.
convert_amount_half_up(amount, rate) == ROUND_HALF_UP(amount * rate, 10)

\* ExchangeRateService.convert_amount, its arithmetic.
convert_amount(amount, rate) == quantize(amount * rate)

\* ExchangeRate.convert
ExchangeRate_convert(amount, rate_value) == quantize(amount * rate_value)

\* ExchangeRateV2ViewSet.convert, its arithmetic.
v2_convert(amount, rate_value) == quantize(amount * rate_value)

ConvertAmounts == (-MaxAmount .. MaxAmount) \cup {1000}

ConvertRates == {-850000, 0, 1, 3, 5, 850000, 1234567}

InitConvert ==
    /\ currencies = Codes
    /\ rates = EmptyBag
    /\ providers = {}
    /\ resolver = [c \in Callers |-> Idle]
    /\ worker = Idle
    /\ last \in [op : {"input"}, amount : ConvertAmounts, rate : ConvertRates]
    /\ logged = {"convert"}
    /\ settings = Configured
    /\ rng = Unseeded

\* The three implementations applied to the same amount and rate.
Convert ==
    /\ last.op = "input"
    /\ last' = Log("convert",
                   [op |-> "convert", amount |-> last.amount, rate |-> last.rate,
                    service |-> convert_amount(last.amount, last.rate),
                    domain |-> ExchangeRate_convert(last.amount, last.rate),
                    v2 |-> v2_convert(last.amount, last.rate)])
    /\ UNCHANGED <<currencies, rates, providers, resolver, worker, logged, settings, rng>>

SpecConvert == InitConvert /\ [][Convert]_vars

----------------------------------------------------------------------------
\* The Mock adapter, statement by statement, called by the threads of one
\* process.  random.seed and random.uniform act on the generator the module
\* random shares among all threads; a call that is alone between its seed and
\* its draw returns MockProvider(s, t, d).

Threads == {"t1", "t2"}

MockPairs == {<<"USD", "EUR">>, <<"EUR", "USD">>}

\* (base_rate * variation).quantize(Decimal("0.000001")) for the pair (s, t),
\* variation being the first, second and third uniform(0.98, 1.02) after
\* random.seed(f"{source}{target}{date}") of the triple seed.
MockDraws(s, t, seed) ==
    CASE s = "USD" /\ seed = <<"USD", "EUR", 1>> -> <<838642, 852039, 842989>>
      [] s = "USD" /\ seed = <<"USD", "EUR", 2>> -> <<862229, 858732, 860232>>
      [] s = "USD" /\ seed = <<"USD", "EUR", 3>> -> <<853323, 850170, 852438>>
      [] s = "USD" /\ seed = <<"EUR", "USD", 1>> -> <<863713, 843219, 851643>>
      [] s = "USD" /\ seed = <<"EUR", "USD", 2>> -> <<842136, 864203, 859366>>
      [] s = "USD" /\ seed = <<"EUR", "USD", 3>> -> <<864369, 837010, 842588>>
      [] s = "EUR" /\ seed = <<"USD", "EUR", 1>> -> <<1160750, 1179293, 1166766>>
      [] s = "EUR" /\ seed = <<"USD", "EUR", 2>> -> <<1193397, 1188556, 1190633>>
      [] s = "EUR" /\ seed = <<"USD", "EUR", 3>> -> <<1181070, 1176707, 1179845>>
      [] s = "EUR" /\ seed = <<"EUR", "USD", 1>> -> <<1195451, 1167085, 1178744>>
      [] s = "EUR" /\ seed = <<"EUR", "USD", 2>> -> <<1165587, 1196129, 1189433>>
      [] s = "EUR" /\ seed = <<"EUR", "USD", 3>> -> <<1196358, 1158491, 1166212>>

\* Lines 49-61: the base rates are looked up and the shared generator is
\* seeded with the thread's triple.
MockSeed(c, s, t, d) ==
    /\ resolver[c].pc = "idle"
    /\ IF s \notin BASE_RATES \/ t \notin BASE_RATES
       THEN /\ last' = Log("mock", [op |-> "mock", step |-> "return", thread |-> c,
                                    source |-> s, target |-> t, date |-> d,
                                    result |-> None])
            /\ UNCHANGED <<resolver, rng>>
       ELSE /\ rng' = [seed |-> <<s, t, d>>, drawn |-> 0]
            /\ resolver' = [resolver EXCEPT ![c] =
                               [pc |-> "seeded", source |-> s, target |-> t, date |-> d]]
            /\ last' = Log("mock", [op |-> "mock", step |-> "seed", thread |-> c])
    /\ UNCHANGED <<currencies, rates, providers, worker, logged, settings>>

\* Lines 62-66: the next number of the shared generator is drawn, whatever
\* seed it has by now, and the rate is returned.
MockDraw(c) ==
    /\ resolver[c].pc = "seeded"
    /\ LET r == resolver[c]
       IN last' = Log("mock", [op |-> "mock", step |-> "return", thread |-> c,
                               source |-> r.source, target |-> r.target,
                               date |-> r.date,
                               result |-> Some(MockDraws(r.source, r.target,
                                                         rng.seed)[rng.drawn + 1])])
    /\ rng' = [rng EXCEPT !.drawn = @ + 1]
    /\ resolver' = [resolver EXCEPT ![c] = Idle]
    /\ UNCHANGED <<currencies, rates, providers, worker, logged, settings>>

InitMock ==
    /\ currencies = Codes
    /\ rates = EmptyBag
    /\ providers = {ProviderRec("mock", 1, TRUE)}
    /\ resolver = [c \in Threads |-> Idle]
    /\ worker = Idle
    /\ last = [op |-> "none"]
    /\ logged = {"mock"}
    /\ settings = Configured
    /\ rng = Unseeded

NextMock ==
    \/ \E c \in Threads, st \in MockPairs \cup {<<"USD", "XXX">>}, d \in Dates :
         MockSeed(c, st[1], st[2], d)
    \/ \E c \in Threads : MockDraw(c)

SpecMock == InitMock /\ [][NextMock]_vars

\* C12: the Mock adapter's result is a function of its own (source, target,
\* date) alone: every call returns the value that triple always gives, also
\* while other threads call the adapter with other triples.
C12_MockFunctionOfTriple ==
    (last.op = "mock" /\ last.step = "return")
        => last.result = MockProvider(last.source, last.target, last.date)

----------------------------------------------------------------------------
\* The daily sync run again and again, alone, against each provider
\* configuration: a provider that always answers, one that may fail.

MaxRuns == 2

SyncSeeds ==
    {{ProviderRec("mock", 1, TRUE)},
     {ProviderRec("currency_beacon", 1, TRUE)},
     {ProviderRec("currency_beacon", 1, TRUE), ProviderRec("mock", 2, FALSE)}}

InitSync ==
    /\ currencies = Codes
    /\ rates = EmptyBag
    /\ providers \in SyncSeeds
    /\ resolver = [c \in Callers |-> Idle]
    /\ worker = Idle
    /\ last = [op |-> "none"]
    /\ logged = {"sync", "runs"}
    /\ settings = Configured
    /\ rng = Unseeded

NextSync ==
    \/ PriorRuns < MaxRuns /\ sync_exchange_rates_for_today
    \/ TaskFetch
    \/ TaskSave
    \/ \E n \in ProviderName : toggle_active(n)

SpecSync == InitSync /\ [][NextSync]_vars

\* Every ordered pair of distinct registered currencies has a row for the date.
AllPairsIn(rs, d) ==
    \A a \in currencies, b \in currencies :
        a # b => RowsFor(rs, a, b, d) # {}

SecondRunReturned ==
    last.op = "syncToday" /\ last.step = "return" /\ last.runs >= 2

\* C13: running the sync for a date twice leaves the table with the rows it
\* had after the first run: the second run inserts no row and creates no
\* duplicate.
C13_SecondRunInsertsNothing ==
    SecondRunReturned
        => /\ last.rates_synced = 0
           /\ rates = last.before

\* C13, amended: a second run of the sync for a date creates no duplicate and
\* leaves every row it met as it was; it inserts rows only for keys that had
\* no row (those the first run got no rate for), its count is the number of
\* rows it inserted, and when the first run left a row for every pair it
\* inserts nothing.
C13_SecondRunAddsOnlyMissing ==
    SecondRunReturned
        => /\ \A r \in DOMAIN rates :
                /\ rates[r] = 1
                /\ RowsFor(rates, r.source, r.target, r.date) = {r}
           /\ \A r \in DOMAIN last.before : CopiesIn(r, rates) = CopiesIn(r, last.before)
           /\ \A r \in DOMAIN rates :
                r \notin DOMAIN last.before
                    => RowsFor(last.before, r.source, r.target, r.date) = {}
           /\ last.rates_synced = BagCardinality(rates) - BagCardinality(last.before)
           /\ AllPairsIn(last.before, Today)
                => (rates = last.before /\ last.rates_synced = 0)

C13_Witness ==
    /\ SecondRunReturned
    /\ AllPairsIn(last.before, Today)
    /\ rates = last.before

----------------------------------------------------------------------------
\* The batch jobs, one at a time, with every argument they accept, over each
\* configuration of currencies and providers.

JobSeeds ==
    SyncSeeds \cup
    {{}, {ProviderRec("mock", 1, TRUE), ProviderRec("exchange_rate", 2, TRUE)}}

InitJobs ==
    /\ currencies \in {{}, Codes}
    /\ rates = EmptyBag
    /\ providers \in JobSeeds
    /\ resolver = [c \in Callers |-> Idle]
    /\ worker = Idle
    /\ last = [op |-> "none"]
    /\ logged = {"sync", "cleanup", "health"}
    /\ settings = Configured
    /\ rng = Unseeded

NextJobs ==
    \/ sync_exchange_rates_for_today
    \/ \E date_from_str \in DateStrings, date_to_str \in DateStrings :
         sync_exchange_rates_for_date_range(date_from_str, date_to_str)
    \/ \E s \in ArgCodes, t \in ArgCodes,
          date_from_str \in DateStrings, date_to_str \in DateStrings :
         sync_missing_rates_for_currency_pair(s, t, date_from_str, date_to_str)
    \/ TaskFetch
    \/ TaskSave
    \/ Cleanup
    \/ check_providers_health

SpecJobs == InitJobs /\ [][NextJobs]_vars

\* The date-range task returned from a run over a well-formed range, with at
\* least two currencies registered and the mock adapter, which has a rate for
\* every query, first in the active list.
BackfillCompleted ==
    /\ last.op = "dateRange"
    /\ last.step = "return"
    /\ last.date_from # None
    /\ last.date_to # None
    /\ last.date_from[1] <= last.date_to[1]
    /\ currencies = Codes
    /\ last.listed # <<>>
    /\ last.listed[1].name = "mock"

\* C14: after the date-range backfill completes against a provider that has a
\* rate for every query, the table holds a rate for every ordered pair of
\* distinct registered currencies and every date of the range, and the
\* reported count is the number of rows the run inserted.
C14_BackfillFillsRange ==
    BackfillCompleted
        => /\ \A d \in last.date_from[1] .. last.date_to[1] : AllPairsIn(rates, d)
           /\ last.rates_synced = BagCardinality(rates) - BagCardinality(last.before)

\* A batch job returned its result record.
JobReturned ==
    \/ last.op \in {"cleanup", "health"}
    \/ last.op \in {"syncToday", "gapSync", "dateRange"} /\ last.step = "return"

\* The run was asked something it cannot do: a date string that is no date, a
\* range whose start is after its end, nothing configured to work on.
StructuralFailure ==
    /\ last.op \in {"syncToday", "gapSync", "dateRange"}
    /\ \/ last.why \in {"invalid_date", "reversed", "no_currencies",
                        "no_providers", "currency_not_found"}
       \/ last.op = "gapSync" /\ last.reversed

\* C15: every batch job returns a result record; the record says success =
\* false exactly when the failure is structural (unparseable or reversed date
\* range, nothing configured) and success = true whenever the job ran to
\* completion, whatever happened to single pairs or dates.
C15_SuccessFalseIffStructural ==
    JobReturned => (last.success <=> ~StructuralFailure)

----------------------------------------------------------------------------
\* GET /rates/time-series/.

\* str.upper on the codes a request may carry.
upper(code) ==
    CASE code = "usd" -> "USD"
      [] code = "eur" -> "EUR"
      [] OTHER -> code

\* datetime.strptime(str, "%Y-%m-%d").date(): the day, None for ValueError.
strptime(str) == fromisoformat(str)

\* A filter whose upper end is exclusive.
filter_range_exclusive(rs, s, date_from, date_to) ==
    LET hit == {r \in DOMAIN rs :
                  r.source = s /\ r.date >= date_from /\ r.date < date_to}
    IN [r \in hit |-> rs[r]]

\* CurrencyExchangeRate.objects.filter(source_currency=, valuation_date__gte=,
\* valuation_date__lte=): the rows of the table that match.
filter_range(rs, s, date_from, date_to) ==
    LET hit == {r \in DOMAIN rs :
                  r.source = s /\ r.date >= date_from /\ r.date <= date_to}
    IN [r \in hit |-> rs[r]]

SeriesResponse(status, args, rows) ==
    [op |-> "timeSeries", status |-> status, args |-> args, rates |-> rows]

time_series(source_currency_code, date_from_str, date_to_str) ==
    /\ LET args == <<source_currency_code, date_from_str, date_to_str>>
           date_from == strptime(date_from_str)
           date_to == strptime(date_to_str)
       IN last' = Log("series",
            IF source_currency_code = "" \/ date_from_str = "" \/ date_to_str = ""
            THEN SeriesResponse(400, args, EmptyBag)
            ELSE IF date_from = None \/ date_to = None
            THEN SeriesResponse(400, args, EmptyBag)
            ELSE IF date_from[1] > date_to[1]
            THEN SeriesResponse(400, args, EmptyBag)
            ELSE IF upper(source_currency_code) \notin currencies
            THEN SeriesResponse(404, args, EmptyBag)
            ELSE SeriesResponse(200, args,
                    filter_range(rates, upper(source_currency_code),
                                 date_from[1], date_to[1])))
    /\ UNCHANGED <<currencies, rates, providers, resolver, worker, logged, settings, rng>>

SeriesCodes == {"USD", "eur", "GBP", ""}

SeriesDates == DateStrings \cup {""}

TimeSeries ==
    \E code \in SeriesCodes, date_from_str \in SeriesDates, date_to_str \in SeriesDates :
        time_series(code, date_from_str, date_to_str)

\* The table is filled by the gap sync of each pair while the series are read.
InitSeries ==
    /\ currencies = Codes
    /\ rates = EmptyBag
    /\ providers = {ProviderRec("mock", 1, TRUE)}
    /\ resolver = [c \in Callers |-> Idle]
    /\ worker = Idle
    /\ last = [op |-> "none"]
    /\ logged = {"series"}
    /\ settings = Configured
    /\ rng = Unseeded

NextSeries ==
    \/ \E s \in Codes, t \in Codes, date_from \in Dates, date_to \in Dates :
         sync_missing_rates_for_currency_pair(s, t, isoformat(date_from), isoformat(date_to))
    \/ TaskFetch
    \/ TaskSave
    \/ TimeSeries

SpecSeries == InitSeries /\ [][NextSeries]_vars

\* The request answered in this step was a well-formed one for a registered
\* source currency.
SeriesAnswered ==
    /\ last' # last
    /\ last'.op = "timeSeries"

----------------------------------------------------------------------------
\* GET /rates/convert/ of API v1: the view, the service call it makes and the
\* response, as one request.

\* Decimal(amount_str) in units of 0.1, None for a string that is no number.
AmountStrings == {"10", "-5", "abc"}

Decimal(amount_str) ==
    CASE amount_str = "10" -> Some(100)
      [] amount_str = "-5" -> Some(-50)
      [] OTHER -> None

\* The codes and the optional date of a request.
ViewSources == {"USD", "GBP", ""}

ViewTargets == {"eur", "GBP"}

ViewDates == DateStrings \cup {""}

ViewResponse(status, args, out, value) ==
    [op |-> "convertView", status |-> status, args |-> args,
     registered |-> upper(args[1]) \in currencies /\ upper(args[2]) \in currencies,
     listed |-> out.listed, calls |-> out.calls, rate |-> out.rate_value,
     converted_amount |-> value]

NotCalled == [save |-> FALSE, rate_value |-> None, listed |-> <<>>, calls |-> <<>>]

v1_convert(source_currency_code, exchanged_currency_code, amount_str, valuation_date_str) ==
    LET args == <<source_currency_code, exchanged_currency_code, amount_str,
                  valuation_date_str>>
        amount == Decimal(amount_str)
        valuation_date == IF valuation_date_str = "" THEN Some(Today)
                          ELSE strptime(valuation_date_str)
        bad == \/ source_currency_code = "" \/ exchanged_currency_code = ""
               \/ amount_str = ""
               \/ amount = None
               \/ amount[1] <= 0
               \/ valuation_date = None
        s == upper(source_currency_code)
        t == upper(exchanged_currency_code)
        provs == get_active_providers_ordered(providers)
    IN IF bad
       THEN /\ last' = Log("view", ViewResponse(400, args, NotCalled, None))
            /\ UNCHANGED <<currencies, rates, providers, resolver, worker, logged, settings, rng>>
       ELSE \E ans \in AnswersFor(provs, s, t, valuation_date[1]) :
              LET out == fetch_exchange_rate(currencies, rates, provs, s, t,
                                             valuation_date[1], ans)
                  saved == IF out.save
                           THEN create(currencies, rates,
                                       Row(s, t, valuation_date[1], out.rate_value[1]))
                           ELSE [ok |-> FALSE, rates |-> rates]
              IN /\ saved.ok => BagCardinality(rates) < MaxRows
                 /\ rates' = saved.rates
                 /\ last' = Log("view",
                        IF out.rate_value = None
                        THEN ViewResponse(500, args, out, None)
                        ELSE ViewResponse(200, args, out,
                                Some(convert_amount(amount[1], out.rate_value[1]))))
                 /\ UNCHANGED <<currencies, providers, resolver, worker, logged, settings, rng>>

\* ExchangeRateProvider.get_exchange_rate_data: None when the URL or the key
\* is not set, else None for every error of the request or the rate of the
\* payload.
ExchangeRateProvider(s, t, d) ==
    {adapter_call("exchange_rate", s, t, d, response) : response \in Responses}

\* get_exchange_rate_provider of API v2: the pair (provider, error).
get_exchange_rate_provider ==
    IF "exchange_rate" \notin PROVIDER_REGISTRY
    THEN [provider |-> None, error |-> "not_registered"]
    ELSE IF ~settings.EXCHANGERATE
    THEN [provider |-> None, error |-> "not_configured"]
    ELSE [provider |-> Some("exchange_rate"), error |-> ""]

V2Response(status, args, error, rate) ==
    [op |-> "convertV2", status |-> status, args |-> args, error |-> error,
     rate |-> rate]

\* GET /rates/convert/ of API v2: the ExchangeRate adapter alone, for today,
\* nothing stored.
v2_convert_view(source_currency_code, exchanged_currency_code, amount_str) ==
    /\ LET args == <<source_currency_code, exchanged_currency_code, amount_str, "">>
           got == get_exchange_rate_provider
           amount == Decimal(amount_str)
       IN IF got.error # "" \/ got.provider = None
          THEN last' = Log("view", V2Response(503, args, got.error, None))
          ELSE IF source_currency_code = "" \/ exchanged_currency_code = ""
                  \/ amount_str = ""
          THEN last' = Log("view", V2Response(400, args, "required", None))
          ELSE IF amount = None
          THEN last' = Log("view", V2Response(400, args, "invalid_amount", None))
          ELSE IF amount[1] <= 0
          THEN last' = Log("view", V2Response(400, args, "not_positive", None))
          ELSE \E rate_value \in ExchangeRateProvider(upper(source_currency_code),
                                                      upper(exchanged_currency_code),
                                                      Today) :
                 last' = Log("view",
                    IF rate_value = None
                    THEN V2Response(502, args, "no_rate", None)
                    ELSE V2Response(200, args, "", rate_value))
    /\ UNCHANGED <<currencies, rates, providers, resolver, worker, logged, settings, rng>>

ViewSeeds ==
    {{ProviderRec("mock", 1, FALSE)},
     {ProviderRec("currency_beacon", 1, TRUE), ProviderRec("mock", 2, FALSE)}}

InitView ==
    /\ currencies = Codes
    /\ rates = EmptyBag
    /\ providers \in ViewSeeds
    /\ resolver = [c \in Callers |-> Idle]
    /\ worker = Idle
    /\ last = [op |-> "none"]
    /\ logged = {"view"}
    /\ settings \in [CURRENCY_BEACON : BOOLEAN, EXCHANGERATE : BOOLEAN]
    /\ rng = Unseeded

NextView ==
    \/ \E s \in ViewSources, t \in ViewTargets, amount_str \in AmountStrings,
          d \in ViewDates : v1_convert(s, t, amount_str, d)
    \/ \E s \in ViewSources, t \in ViewTargets, amount_str \in AmountStrings :
         v2_convert_view(s, t, amount_str)
    \/ \E n \in ProviderName : toggle_active(n)

SpecView == InitView /\ [][NextView]_vars

\* The request passes the view's validation of its parameters.
WellFormed(args) ==
    /\ args[1] # "" /\ args[2] # ""
    /\ Decimal(args[3]) # None
    /\ Decimal(args[3])[1] > 0
    /\ args[4] = "" \/ strptime(args[4]) # None

\* C17: a convert that fails says why: with an unregistered currency code the
\* response is a 4xx, with an empty active-provider list or with every
\* provider failing it is a 5xx, so the first is told apart from the others.
C17_FailureTellsWhy ==
    last.op = "convertView" /\ WellFormed(last.args) /\ last.rate = None
        => /\ ~last.registered => (400 <= last.status /\ last.status <= 499)
           /\ last.registered => (500 <= last.status /\ last.status <= 599)

----------------------------------------------------------------------------
\* The lookup came to the provider list (both currencies registered, no row
\* stored) and either the list was empty or every adapter of it was called
\* and answered None.
NoProviderGaveRate(f) ==
    /\ f.registered
    /\ f.cached = None
    /\ \/ f.listed = <<>>
       \/ /\ Len(f.calls) = Len(f.listed)
          /\ \A i \in DOMAIN f.calls : f.calls[i].returned = None

\* C18: resolve returns no rate when the active provider list is empty and
\* when every active adapter answers no rate; in both cases nothing is saved
\* and the rate table stays as it was.
C18_NoRateWhenProvidersFail ==
    [][(last'.op = "resolve" /\ last'.step = "begin"
                             /\ NoProviderGaveRate(last'.found))
          => /\ last'.done
             /\ last'.result = None
             /\ resolver' = resolver
             /\ rates' = rates]_vars

\* The adapters listed were called and answered None, after an earlier lookup
\* had stored a row for another key.
C18_Witness ==
    /\ ResolveReturned
    /\ NoProviderGaveRate(last.found)
    /\ Len(last.found.calls) >= 1
    /\ last.result = None
    /\ rates # EmptyBag

\* The request was answered without a rate and an adapter the endpoint relies
\* on has no credentials: the ExchangeRate adapter of API v2, or an adapter
\* that the lookup of API v1 called.
MissingCredentials ==
    \/ last.op = "convertV2" /\ ~settings.EXCHANGERATE
    \/ /\ last.op = "convertView"
       /\ WellFormed(last.args)
       /\ last.rate = None
       /\ ~settings.CURRENCY_BEACON
       /\ \E i \in DOMAIN last.calls : last.calls[i].adapter = "currency_beacon"

\* C19: when the credentials of an adapter are absent the caller gets a 503,
\* the service-unavailable outcome, which is not the outcome of an ordinary
\* miss: an adapter without credentials is never reported as a data miss.
C19_MissingCredentialsIs503 ==
    MissingCredentials => last.status = 503

----------------------------------------------------------------------------
\* C20: the cleanup with days_to_keep = n removes exactly the rows dated
\* before today minus n days, keeps every other row as it is, changes neither
\* the currencies nor the providers, and reports the number of rows removed.
C20_CleanupRemovesExactlyOld ==
    [][last'.op = "cleanup" =>
         LET cutoff_date == Today - last'.days_kept
         IN /\ \A r \in DOMAIN rates :
                 CopiesIn(r, rates') =
                     IF r.date < cutoff_date THEN 0 ELSE CopiesIn(r, rates)
            /\ \A r \in DOMAIN rates' : r \in DOMAIN rates
            /\ last'.success
            /\ last'.rates_deleted = BagCardinality(rates) - BagCardinality(rates')
            /\ UNCHANGED <<currencies, providers>>]_vars

\* A cleanup removed a row and kept another.
C20_Witness ==
    /\ last.op = "cleanup"
    /\ last.rates_deleted > 0
    /\ rates # EmptyBag

----------------------------------------------------------------------------
\* Lookups with get_active_providers_ordered patched to lists that hold an
\* adapter which raises.

RaisingLists ==
    {<<"raising", "mock">>,
     <<"currency_beacon", "raising">>,
     <<"currency_beacon", "raising", "mock">>}

InitRaising ==
    /\ currencies = Codes
    /\ rates = EmptyBag
    /\ providers = {ProviderRec("mock", 1, TRUE)}
    /\ resolver = [c \in Callers |-> Idle]
    /\ worker = Idle
    /\ last = [op |-> "none"]
    /\ logged = {"resolve"}
    /\ settings = Configured
    /\ rng = Unseeded

NextRaising ==
    \/ \E c \in Callers, st \in ResolvePairs, d \in Dates, provs \in RaisingLists :
         ResolveBeginPatched(c, st[1], st[2], d, provs)
    \/ \E c \in Callers : ResolveSave(c)
    \/ Cleanup

SpecRaising == InitRaising /\ [][NextRaising]_vars

\* C21: an adapter that raises during resolve is treated like one that gave
\* no rate: the exception does not reach the caller of resolve and the next
\* adapter of the list is called, so that a later adapter's rate is returned
\* and saved.
C21_RaisingAdapterSkipped ==
    (last.op = "resolve" /\ last.step = "begin")
        => /\ last.result # Raised
           /\ \A i \in DOMAIN last.found.calls :
                (last.found.calls[i].returned = Raised /\ i < Len(last.found.listed))
                    => Len(last.found.calls) > i

----------------------------------------------------------------------------
\* Two lookups in flight at once, in two request threads, for the same pair.

InitRace ==
    /\ currencies = Codes
    /\ rates = EmptyBag
    /\ providers = {ProviderRec("currency_beacon", 1, TRUE), ProviderRec("mock", 2, TRUE)}
    /\ resolver = [c \in Threads |-> Idle]
    /\ worker = Idle
    /\ last = [op |-> "none"]
    /\ logged = {"resolve"}
    /\ settings = Configured
    /\ rng = Unseeded

NextRace ==
    \/ \E c \in Threads, d \in Dates : ResolveBegin(c, "USD", "EUR", d)
    \/ \E c \in Threads : ResolveSave(c)

SpecRace == InitRace /\ [][NextRace]_vars

\* C22: of two lookups of one key that both missed the cache, each returns
\* to its caller the rate it got from its provider; the one that saves second
\* does not fail and changes nothing, and the table ends with one row of the
\* key, holding the value of the one that saved first.
C22_RaceLoserStillReturns ==
    [][(last'.op = "resolve" /\ last'.step = "save") =>
         LET f == last'.found
         IN /\ f.cached = None
            /\ \E c \in Threads :
                 /\ resolver[c].pc = "save"
                 /\ resolver'[c] = Idle
                 /\ last'.result = resolver[c].rate_value
                 /\ last'.result # None
            /\ IF Stored(f.source, f.target, f.date) # {}
               THEN ~last'.saved /\ rates' = rates
               ELSE /\ last'.saved
                    /\ {r.value : r \in RowsFor(rates', f.source, f.target, f.date)}
                          = {last'.result[1]}
            /\ \A r \in DOMAIN rates' :
                 rates'[r] = 1 /\ RowsFor(rates', r.source, r.target, r.date) = {r}]_vars

\* The second of two racing lookups returned its own rate, which is not the
\* one the table holds.
C22_Witness ==
    /\ last.op = "resolve" /\ last.step = "save" /\ ~last.saved
    /\ last.found.cached = None
    /\ last.result # None
    /\ \E v \in Stored(last.found.source, last.found.target, last.found.date) :
         v # last.result[1]
    /\ \A c \in Threads : resolver[c].pc = "idle"

----------------------------------------------------------------------------
\* The daily sync while a bulk insert and a lookup write the same keys, the
\* results of the task recorded.

InitDup ==
    /\ currencies = Codes
    /\ rates = EmptyBag
    /\ providers = {ProviderRec("mock", 1, TRUE)}
    /\ resolver = [c \in Callers |-> Idle]
    /\ worker = Idle
    /\ last = [op |-> "none"]
    /\ logged = {"sync", "bulk"}
    /\ settings = Configured
    /\ rng = Unseeded

NextDup ==
    \/ sync_exchange_rates_for_today
    \/ TaskFetch
    \/ TaskSave
    \/ Bulk
    \/ \E c \in Callers : ResolveBegin(c, "USD", "EUR", Today)
    \/ \E c \in Callers : ResolveSave(c)
    \/ Cleanup

SpecDup == InitDup /\ [][NextDup]_vars

\* The error entries of the task after the step: in its record while it runs,
\* in its result when the step was its last.
ErrorsAfterStep == IF worker'.pc = "idle" THEN last'.errors ELSE worker'.errors

\* C23: a write of a key that already has a row, by a single create or by a
\* bulk insert, is a silent no-op: the writer is told of no error and the row
\* that exists stays as it is.
C23_DuplicateWriteSilent ==
    [][/\ (worker.pc = "save" /\ worker' # worker
             /\ get_rate(rates, Head(worker.todo)[1], Head(worker.todo)[2],
                         Head(worker.todo)[3]) # None)
          => (rates' = rates /\ ErrorsAfterStep = worker.errors)
       /\ (last'.op = "bulk_create" /\ last' # last)
          => (last'.ok /\ \A r \in DOMAIN rates : CopiesIn(r, rates') = CopiesIn(r, rates))]_vars

----------------------------------------------------------------------------
\* The provider table of test_swap_priorities_between_providers under every
\* write of a provider, 999 being the spare priority of the test.

SwapPriorities == Priorities \cup {999}

InitSwap ==
    /\ currencies = Codes
    /\ rates = EmptyBag
    /\ providers = {ProviderRec("mock", 1, TRUE), ProviderRec("currency_beacon", 2, TRUE)}
    /\ resolver = [c \in Callers |-> Idle]
    /\ worker = Idle
    /\ last = [op |-> "none"]
    /\ logged = {"provider"}
    /\ settings = Configured
    /\ rng = Unseeded

NextSwap ==
    \/ \E n \in ProviderName, p \in SwapPriorities, a \in BOOLEAN : CreateProvider(n, p, a)
    \/ \E n \in ProviderName, p \in SwapPriorities, a \in BOOLEAN : UpdateProvider(n, p, a)
    \/ \E n \in ProviderName, p \in SwapPriorities : update_priority(n, p)
    \/ \E n \in ProviderName : DeleteProvider(n)
    \/ \E n \in ProviderName : toggle_active(n)

SpecSwap == InitSwap /\ [][NextSwap]_vars

\* C24: after every create, update, update_priority, toggle and delete of a
\* provider no two records share a priority (or a name); a record takes a
\* priority only when no other record holds it at that moment, so two
\* providers swap their priorities only by way of a priority nobody holds.
C24_PrioritiesStayUnique ==
    [][/\ \A p \in providers', q \in providers' :
            (p.priority = q.priority \/ p.name = q.name) => p = q
       /\ \A q \in providers' :
            (\A p \in providers : p.name = q.name => p.priority # q.priority)
                => \A p \in providers : p.name # q.name => p.priority # q.priority]_vars

\* The two providers of the test have swapped their priorities, the last step
\* being an update.
C24_Witness ==
    /\ ProviderRec("mock", 2, TRUE) \in providers
    /\ ProviderRec("currency_beacon", 1, TRUE) \in providers
    /\ last.op \in {"updateProvider", "update_priority"}

----------------------------------------------------------------------------
\* The provider records an adapter is built for: active, and named in the
\* registry.
Eligible == {p \in providers : p.is_active /\ p.name \in PROVIDER_REGISTRY}

\* C25: the list get_active_providers_ordered gives a lookup holds exactly
\* one adapter for each provider record that is active and has a registered
\* constructor, in ascending order of priority; inactive records and records
\* without a registered constructor (exchange_rate) are left out and the call
\* goes on.
C25_OneAdapterPerEligibleRecord ==
    (last.op = "resolve" /\ last.step = "begin" /\ ~last.found.patched
       /\ last.found.registered /\ last.found.cached = None)
        => LET listed == last.found.listed
           IN /\ Len(listed) = Cardinality(Eligible)
              /\ {listed[j] : j \in 1 .. Len(listed)} = {p.name : p \in Eligible}
              /\ \A i, j \in 1 .. Len(listed) :
                   i < j => \E p \in Eligible, q \in Eligible :
                              /\ p.name = listed[i] /\ q.name = listed[j]
                              /\ p.priority < q.priority
              /\ "exchange_rate" \notin {listed[j] : j \in 1 .. Len(listed)}

\* A lookup got a list of one adapter while the record of exchange_rate, of
\* higher priority and active, has no constructor.
C25_Witness ==
    /\ last.op = "resolve" /\ last.step = "begin" /\ ~last.found.patched
    /\ last.found.registered /\ last.found.cached = None
    /\ Len(last.found.listed) = 1
    /\ \E p \in providers : p.is_active /\ p.name = "exchange_rate" /\ p.priority = 1

----------------------------------------------------------------------------
\* Lookups while an administrator edits the provider table of
\* test_get_active_providers_ordered_multiple: is_active is toggled and
\* priorities are changed between the calls.

InitConfig ==
    /\ currencies = Codes
    /\ rates = EmptyBag
    /\ providers = {ProviderRec("mock", 1, TRUE), ProviderRec("currency_beacon", 2, TRUE)}
    /\ resolver = [c \in Callers |-> Idle]
    /\ worker = Idle
    /\ last = [op |-> "none"]
    /\ logged = {"resolve", "provider"}
    /\ settings = Configured
    /\ rng = Unseeded

NextConfig ==
    \/ \E c \in Callers, st \in ResolvePairs, d \in Dates :
         ResolveBegin(c, st[1], st[2], d)
    \/ \E c \in Callers : ResolveSave(c)
    \/ \E n \in ProviderName : toggle_active(n)
    \/ \E n \in ProviderName, p \in SwapPriorities : update_priority(n, p)
    \/ Cleanup

SpecConfig == InitConfig /\ [][NextConfig]_vars

\* The step is a lookup that went as far as the provider list.
LookupStarts ==
    /\ last'.op = "resolve" /\ last'.step = "begin"
    /\ last'.found.registered /\ last'.found.cached = None

\* The names of the records that are active when the step is taken, lowest
\* priority number first, are exactly listed.
ReadsTableAsItIs(listed) ==
    /\ \A j \in 1 .. Len(listed) :
         \E p \in providers : p.name = listed[j] /\ p.is_active
    /\ \A p \in providers :
         p.is_active => \E j \in 1 .. Len(listed) : listed[j] = p.name
    /\ \A i, j \in 1 .. Len(listed) :
         i < j => PriorityOf(listed[i]) < PriorityOf(listed[j])

\* C26: every lookup reads the provider table anew.  A lookup that starts
\* after is_active was toggled or a priority was changed consults exactly the
\* providers active at that moment in their current priority order, and calls
\* no provider that is inactive; toggle_active keeps the record, its name and
\* its priority, and changes is_active only, so that a second toggle admits
\* the provider again.
C26_ConfigurationReadFresh ==
    [][/\ LookupStarts =>
            /\ ReadsTableAsItIs(last'.found.listed)
            /\ \A j \in 1 .. Len(last'.found.calls) :
                 /\ last'.found.calls[j].adapter = last'.found.listed[j]
                 /\ \E p \in providers :
                      p.name = last'.found.calls[j].adapter /\ p.is_active
       /\ last'.op = "toggle_active" =>
            /\ {<<p.name, p.priority>> : p \in providers'}
                 = {<<p.name, p.priority>> : p \in providers}
            /\ Cardinality(providers \ providers') = 1
            /\ Cardinality(providers') = Cardinality(providers)]_vars

\* A lookup called currency_beacon first and was listed mock second, which
\* the table it started from, mock 1 and currency_beacon 2, gives only after
\* a priority was changed.
C26_Witness ==
    /\ last.op = "resolve" /\ last.step = "begin"
    /\ last.found.listed = <<"currency_beacon", "mock">>
    /\ Len(last.found.calls) >= 1 /\ last.found.calls[1].adapter = "currency_beacon"

----------------------------------------------------------------------------
\* Single calls of the three adapters, with and without their settings.

\* provider.get_exchange_rate_data(s, t, d), the request meeting response.
FetchRate(name, s, t, d, response) ==
    /\ last' = Log("adapter",
                  [op |-> "get_exchange_rate_data", adapter |-> name,
                   source |-> s, target |-> t, date |-> d, response |-> response,
                   returned |-> adapter_call(name, s, t, d, response)])
    /\ UNCHANGED <<currencies, rates, providers, resolver, worker, logged, settings, rng>>

InitAdapters ==
    /\ currencies = Codes
    /\ rates = EmptyBag
    /\ providers = {}
    /\ resolver = [c \in Callers |-> Idle]
    /\ worker = Idle
    /\ last = [op |-> "none"]
    /\ logged = {"adapter"}
    /\ settings \in [CURRENCY_BEACON : BOOLEAN, EXCHANGERATE : BOOLEAN]
    /\ rng = Unseeded

SpecAdapters ==
    InitAdapters
    /\ [][\E name \in ProviderName, s \in ArgCodes, t \in ArgCodes, d \in Dates,
             response \in Responses : FetchRate(name, s, t, d, response)]_vars

\* The request of the call failed: by an exception of the transport or of the
\* HTTP status, or by a payload that has no rate or no number for one.
RequestFailed(response) ==
    response \in {"Timeout", "ConnectionError", "HTTPError", "JSONDecodeError",
                  "no_rate_key", "invalid"}

\* C27: no adapter raises out of get_exchange_rate_data.  A remote adapter
\* whose request meets a timeout, an HTTP error status, a payload without the
\* rate key or a rate that is no number returns None, the mock adapter returns
\* None for a currency it has no base rate for, and every other call returns
\* a rate.
C27_AdapterNeverRaises ==
    last.op = "get_exchange_rate_data"
        => /\ last.returned # Raised
           /\ (last.adapter # "mock" /\ RequestFailed(last.response))
                 => last.returned = None
           /\ (last.adapter = "mock"
                 /\ (last.source \notin BASE_RATES \/ last.target \notin BASE_RATES))
                 => last.returned = None
           /\ last.returned # None => Len(last.returned) = 1

\* CurrencyBeaconProvider, configured, got a rate that is no number, which
\* only the last except clause catches, and returned None.
C27_Witness ==
    /\ last.op = "get_exchange_rate_data"
    /\ last.adapter = "currency_beacon" /\ settings.CURRENCY_BEACON
    /\ last.response = "invalid"
    /\ last.returned = None

----------------------------------------------------------------------------
\* The rates a task counts as synced after the step.
SyncedAfterStep == IF worker'.pc = "idle" THEN last'.rates_synced ELSE worker'.rates_synced

\* The step is the provider loop of a key that has no row, with an adapter to
\* call, and it got no rate to save.
FetchGaveNoRate ==
    /\ worker.pc = "fetch" /\ worker' # worker
    /\ instances_of(worker.providers) # <<>>
    /\ get_rate(rates, Head(worker.todo)[1], Head(worker.todo)[2],
                Head(worker.todo)[3]) = None
    /\ worker'.pc # "save"

\* The step is a save that stored nothing.
SaveFailed == worker.pc = "save" /\ worker' # worker /\ rates' = rates

\* C28: in a run of sync_exchange_rates_for_today or of
\* sync_missing_rates_for_currency_pair, a key whose providers give no rate,
\* or whose save fails, adds one error entry and is not counted as synced,
\* and the run goes on with the keys that are left, returning, when none is,
\* a result with success True.
C28_FailedKeyAddsErrorAndRunGoesOn ==
    [][(FetchGaveNoRate \/ SaveFailed)
          => /\ ErrorsAfterStep = worker.errors + 1
             /\ SyncedAfterStep = worker.rates_synced
             /\ IF Tail(worker.todo) = <<>>
                THEN worker'.pc = "idle" /\ last'.step = "return" /\ last'.success
                ELSE worker'.pc = "fetch" /\ worker'.todo = Tail(worker.todo)]_vars

----------------------------------------------------------------------------
\* The two sync tasks with currency_beacon first and mock second in the active
\* list, the calls of the adapters counted.

InitBackfill ==
    /\ currencies = Codes
    /\ rates = EmptyBag
    /\ providers = {ProviderRec("currency_beacon", 1, TRUE), ProviderRec("mock", 2, TRUE)}
    /\ resolver = [c \in Callers |-> Idle]
    /\ worker = Idle
    /\ last = [op |-> "none"]
    /\ logged = {"sync", "calls"}
    /\ settings = Configured
    /\ rng = Unseeded

NextBackfill ==
    \/ sync_exchange_rates_for_today
    \/ \E s \in Codes, t \in Codes, date_from \in Dates, date_to \in Dates :
         sync_missing_rates_for_currency_pair(s, t, isoformat(date_from), isoformat(date_to))
    \/ TaskFetch
    \/ TaskSave
    \/ Cleanup

SpecBackfill == InitBackfill /\ [][NextBackfill]_vars

\* The calls of the adapters the task has made after the step.
CallsAfterStep == IF worker'.pc = "idle" THEN last'.calls ELSE worker'.calls

\* C29: a run of a sync task asks only the first provider of its active list
\* for each pair and date.  The provider loop of one key makes at most one
\* call, and the rate it hands to the save is an answer of that first
\* provider, so that a run makes no more calls than it has keys.
C29_OnlyTopPriorityProviderAsked ==
    [][(worker.pc = "fetch" /\ worker' # worker)
          => /\ CallsAfterStep <= worker.calls + 1
             /\ worker'.pc = "save"
                  => worker'.rate_value \in
                       get_exchange_rate_data(instances_of(worker.providers)[1],
                                              Head(worker.todo)[1], Head(worker.todo)[2],
                                              Head(worker.todo)[3])]_vars

----------------------------------------------------------------------------
\* The answers the adapters had for the key of the step.
HeardAfterStep == IF worker'.pc = "idle" THEN last'.heard ELSE worker'.heard

\* C30: resolve and the sync tasks agree on what a provider answer is worth.
\* From the store as the task's provider loop meets it and with the answers
\* its adapters gave for the key, a zero rate among them, the task goes on to
\* save exactly the value get_exchange_rate would save for that key, or
\* neither saves anything.
C30_TasksPersistWhatResolveWould ==
    [][(worker.pc = "fetch" /\ worker' # worker)
          => LET key == Head(worker.todo)
                 out == fetch_exchange_rate(currencies, rates,
                                            instances_of(worker.providers),
                                            key[1], key[2], key[3], HeardAfterStep)
             IN IF out.save
                THEN worker'.pc = "save" /\ worker'.rate_value = out.rate_value
                ELSE worker'.pc # "save"]_vars

====
